---- MODULE Spec2Model ----
(***************************************************************************)
(* Adjacency engine of landlab.graph:                                      *)
(*   _links_at_node.pyx  _sort_links_at_node_by_angle, _compact_links,     *)
(*                       _insertion_sort                                   *)
(*   _neighbors.pyx      _neighbors_via_connector                          *)
(* Tables are 0-based functions, as the C arrays of the source are.        *)
(***************************************************************************)
EXTENDS Integers, Sequences, FiniteSets, TLC

\* links_at_node.shape[1]: the width of a table row.
max_links_per_node == 3
\* How many times _sort_links_at_node_by_angle is called in one behaviour.
MaxCalls == 2

Slots == 0 .. (max_links_per_node - 1)

(***************************************************************************)
(* Angles.  Doubles are modelled as integers in microradians (truncated);  *)
(* the table is exact on every direction the meshes below can produce, and *)
(* it is strictly monotone in the true angle, so comparisons of keys are   *)
(* those of the doubles.                                                   *)
(***************************************************************************)
M_PI == 3141592

\* Faulty variant: the zero vector is given the angle of the positive y axis.
AtanFirstQuadrant_pole(y, x) ==
    CASE y = 0 /\ x = 0 -> M_PI \div 2
      [] y = 0 /\ x > 0 -> 0
      [] x = 0 /\ y > 0 -> M_PI \div 2
      [] x > 0 /\ y = x -> M_PI \div 4
      [] x > 0 /\ 2 * y = x -> 463647
      [] x > 0 /\ y = 2 * x -> 1107148

\* atan2(y, x) for y >= 0, x >= 0; atan2(0, 0) = 0 as in C's libm.
AtanFirstQuadrant(y, x) ==
    CASE y = 0 -> 0
      [] x = 0 /\ y > 0 -> M_PI \div 2
      [] x > 0 /\ y = x -> M_PI \div 4
      [] x > 0 /\ 2 * y = x -> 463647
      [] x > 0 /\ y = 2 * x -> 1107148

\* libc atan2: a value in (-pi, pi].
atan2(y, x) ==
    IF y >= 0
    THEN IF x >= 0 THEN AtanFirstQuadrant(y, x) ELSE M_PI - AtanFirstQuadrant(y, -x)
    ELSE IF x >= 0 THEN -AtanFirstQuadrant(-y, x) ELSE -(M_PI - AtanFirstQuadrant(-y, -x))

(***************************************************************************)
(* Inputs: the meshes the mesh constructor hands over.  Each gives the     *)
(* link endpoint table (tail, head), the node coordinates, and the raw     *)
(* (unordered, -1 padded) incidence and orientation tables.                *)
(***************************************************************************)
Row(a, b, c) == [k \in Slots |-> IF k = 0 THEN a ELSE IF k = 1 THEN b ELSE IF k = 2 THEN c ELSE -1]
DirRow(a, b, c) == [k \in Slots |-> IF k = 0 THEN a ELSE IF k = 1 THEN b ELSE IF k = 2 THEN c ELSE 0]

\* A centre node 0 with neighbours east, north and south-west.
MeshStar ==
    [ nodes_at_link |-> (0 :> <<0, 1>>) @@ (1 :> <<2, 0>>) @@ (2 :> <<0, 3>>),
      x_of_node |-> (0 :> 1) @@ (1 :> 2) @@ (2 :> 1) @@ (3 :> 0),
      y_of_node |-> (0 :> 1) @@ (1 :> 1) @@ (2 :> 2) @@ (3 :> 0),
      links_at_node |-> (0 :> Row(2, 0, 1)) @@ (1 :> Row(0, -1, -1))
                        @@ (2 :> Row(-1, 1, -1)) @@ (3 :> Row(-1, -1, 2)),
      link_dirs_at_node |-> (0 :> DirRow(-1, -1, 1)) @@ (1 :> DirRow(1, 0, 0))
                        @@ (2 :> DirRow(0, -1, 0)) @@ (3 :> DirRow(0, 0, 1)) ]

\* Nodes 0, 1, 2 on one horizontal line (two links leave node 0 at the same
\* angle), node 3 north of node 0.
MeshLine ==
    [ nodes_at_link |-> (0 :> <<0, 1>>) @@ (1 :> <<2, 0>>) @@ (2 :> <<0, 3>>),
      x_of_node |-> (0 :> 0) @@ (1 :> 1) @@ (2 :> 2) @@ (3 :> 0),
      y_of_node |-> (0 :> 1) @@ (1 :> 1) @@ (2 :> 1) @@ (3 :> 2),
      links_at_node |-> (0 :> Row(2, 1, 0)) @@ (1 :> Row(-1, 0, -1))
                        @@ (2 :> Row(1, -1, -1)) @@ (3 :> Row(-1, 2, -1)),
      link_dirs_at_node |-> (0 :> DirRow(-1, 1, -1)) @@ (1 :> DirRow(0, 1, 0))
                        @@ (2 :> DirRow(-1, 0, 0)) @@ (3 :> DirRow(0, 1, 0)) ]

Meshes == {MeshStar, MeshLine}

\* Degenerate geometry: node 1 has the coordinates of node 0, link 0 has node 0
\* as its tail and as its head, link 1 joins the two coincident nodes, link 2
\* comes to node 0 from node 2, north of it.  Node 3 has no link.
MeshDegenerate ==
    [ nodes_at_link |-> (0 :> <<0, 0>>) @@ (1 :> <<0, 1>>) @@ (2 :> <<2, 0>>),
      x_of_node |-> (0 :> 1) @@ (1 :> 1) @@ (2 :> 1) @@ (3 :> 0),
      y_of_node |-> (0 :> 1) @@ (1 :> 1) @@ (2 :> 2) @@ (3 :> 1),
      links_at_node |-> (0 :> Row(2, 0, 1)) @@ (1 :> Row(-1, 1, -1))
                        @@ (2 :> Row(2, -1, -1)) @@ (3 :> Row(-1, -1, -1)),
      link_dirs_at_node |-> (0 :> DirRow(1, -1, -1)) @@ (1 :> DirRow(0, 1, 0))
                        @@ (2 :> DirRow(-1, 0, 0)) @@ (3 :> DirRow(0, 0, 0)) ]

\* The direction a mesh constructor records for `link` at node n: -1 when n is
\* the link's tail (the link leaves n), +1 otherwise.
RawDir(m, n, link) == IF m.nodes_at_link[link][1] = n THEN -1 ELSE 1

\* A raw row of node n as a caller may pass it: any link id or -1 in any slot;
\* a valid slot carries the link's direction, the absent slots carry 0 or a
\* stray 1.
RawRows(m, n) ==
    { [ links |-> l,
        link_dirs |-> [k \in Slots |-> IF l[k] = -1 THEN stray ELSE RawDir(m, n, l[k])] ] :
      l \in [Slots -> (DOMAIN m.nodes_at_link) \cup {-1}], stray \in {0, 1} }

VARIABLES
    nodes_at_link,      \* input, const: link -> <<tail, head>>
    x_of_node,          \* input, const
    y_of_node,          \* input, const
    links_at_node,      \* in/out table: node -> slot -> link id or -1
    link_dirs_at_node,  \* in/out table: node -> slot -> direction
    angles,             \* scratch: slot -> key (contents of the malloc'ed buffer)
    n_links_at_node,    \* scratch: node -> count returned by _compact_links
    angles_mem,         \* the block `angles` points to: "none" before the first
                        \* call, "null", "live", "freed" or "double_freed"
    n_links_mem,        \* the same for the n_links_at_node pointer
    node,               \* loop variable of the two loops over rows
    pc,                 \* position in _sort_links_at_node_by_angle
    ncalls,             \* calls made so far
    links0,             \* links_at_node as it was when the current call began
    dirs0,              \* link_dirs_at_node as it was when the current call began
    entered_from,       \* the pc the current call was entered from
    where,              \* _neighbors_via_connector: i -> element id
    out,                \* _neighbors_via_connector: the caller's out table
    out0,               \* out as the caller passed it
    iter_k,             \* prange iteration i -> its loop variable k
    pc_nbr,             \* position in _neighbors_via_connector
    result_obj,         \* which object _neighbors_via_connector returned
    interleaved,        \* history: an iteration ran while another was part-way
    indexed,            \* history: the ids elements_at_connector was indexed with
    row_pc,             \* node -> position of its row when rows run unordered
    angles_of,          \* history: the row whose keys were written last, or -1
    intact,             \* history: every sort so far read its own row's keys
    w,                  \* subside_grid_in_parallel: row -> column -> deflection
    load,               \* input, const: row -> column -> load
    r,                  \* input, const: row distance -> column distance -> weight
    n_procs,            \* input, const
    w0,                 \* w as it was when the call began
    n_strips,           \* the n_strips tile_grid_into_strips was last called with
    strips,             \* what tile_grid_into_strips returned: <<start, stop>> pairs
    results,            \* pool.map: strip -> its dz, << >> while the worker runs
    row_load,           \* subside_grid: loop variable of the outer loop
    row,                \* subside_grid: loop variable of the inner loops
    pc_sub,             \* position in subside_grid_in_parallel
    kernel_calls        \* history: <<row, load row>> -> calls of subside_parallel_row

vars == << nodes_at_link, x_of_node, y_of_node, links_at_node, link_dirs_at_node,
           angles, n_links_at_node, angles_mem, n_links_mem, node, pc, ncalls,
           links0, dirs0, entered_from, where, out, out0, iter_k, pc_nbr, result_obj,
           interleaved, indexed, row_pc, angles_of, intact, w, load, r, n_procs, w0,
           n_strips, strips, results, row_load, row, pc_sub, kernel_calls >>

sort_vars == << links_at_node, link_dirs_at_node, angles, n_links_at_node, angles_mem,
                n_links_mem, node, pc, ncalls, links0, dirs0, entered_from >>

nbr_vars == << where, out, out0, iter_k, pc_nbr, result_obj, interleaved, indexed >>

row_vars == << row_pc, angles_of, intact >>

inputs == << nodes_at_link, x_of_node, y_of_node >>

sub_vars == << w, load, r, n_procs, w0, n_strips, strips, results, row_load, row,
               pc_sub, kernel_calls >>

Nodes == DOMAIN links_at_node
Links == DOMAIN nodes_at_link
n_nodes == Cardinality(Nodes)
\* links_at_node.shape[1] (line 38): the width of the table the caller passed.
shape1 == Cardinality(DOMAIN links_at_node[0])

(***************************************************************************)
(* Integer types.  id_t is int32_t or int64_t (lines 10-12); the locals of *)
(* _compact_links are Py_ssize_t, which is eight bytes wide on every       *)
(* target the wheels are built for.  The model keeps the byte counts and   *)
(* gives every byte BitsPerByte bits, so that the extreme values of each   *)
(* type stay inside the integers TLC can hold.                             *)
(***************************************************************************)
BitsPerByte == 1
sizeof_int32_t == 4
sizeof_int64_t == 8
sizeof_Py_ssize_t == 8

RECURSIVE Pow2(_)
Pow2(b) == IF b = 0 THEN 1 ELSE 2 * Pow2(b - 1)

\* The least and the greatest value of a signed type of `bytes` bytes.
IntMin(bytes) == -Pow2(bytes * BitsPerByte - 1)
IntMax(bytes) == Pow2(bytes * BitsPerByte - 1) - 1

\* Conversion of v to a signed type of `bytes` bytes: the value modulo 2^bits.
Wrap(v, bytes) ==
    ((v - IntMin(bytes)) % Pow2(bytes * BitsPerByte)) + IntMin(bytes)

\* Faulty variant: the local is four bytes wide.
Py_ssize_t_narrow(v) == Wrap(v, sizeof_int32_t)

\* Conversion of an id_t to Py_ssize_t (line 130, `link = links[k]`).
Py_ssize_t(v) == Wrap(v, sizeof_Py_ssize_t)

(***************************************************************************)
(* _compact_links(links, link_dirs, size)                                  *)
(***************************************************************************)
\* The first loop, from slot k on: copy each pair whose link is not -1 to
\* slot `count`.
RECURSIVE CompactCopy(_, _, _, _, _)
CompactCopy(links, link_dirs, size, k, count) ==
    IF k >= size
    THEN [links |-> links, link_dirs |-> link_dirs, count |-> count]
    ELSE LET link == Py_ssize_t(links[k])
             link_dir == link_dirs[k]
         IN  IF link # -1
             THEN CompactCopy([links EXCEPT ![count] = link],
                              [link_dirs EXCEPT ![count] = link_dir],
                              size, k + 1, count + 1)
             ELSE CompactCopy(links, link_dirs, size, k + 1, count)

\* Faulty variant: the second loop forgets `link_dirs[k] = 0`.
CompactPad_links_only(links, link_dirs, size, count) ==
    [ links |-> [k \in DOMAIN links |-> IF k >= count /\ k < size THEN -1 ELSE links[k]],
      link_dirs |-> link_dirs,
      count |-> count ]

\* The second loop: slots count .. size-1 are set to (-1, 0).
CompactPad(links, link_dirs, size, count) ==
    [ links |-> [k \in DOMAIN links |-> IF k >= count /\ k < size THEN -1 ELSE links[k]],
      link_dirs |-> [k \in DOMAIN link_dirs |->
                        IF k >= count /\ k < size THEN 0 ELSE link_dirs[k]],
      count |-> count ]

\* Faulty variant: the second loop is missing; the tail of the row keeps what
\* the first loop left there.
_compact_links_unpadded(links, link_dirs, size) ==
    CompactCopy(links, link_dirs, size, 0, 0)

\* Faulty variant: the second loop writes one slot beyond the row
\* (range(count, size + 1)).
_compact_links_grown(links, link_dirs, size) ==
    LET c == CompactCopy(links, link_dirs, size, 0, 0)
    IN  [ links |-> [k \in 0 .. size |-> IF k >= c.count THEN -1 ELSE c.links[k]],
          link_dirs |-> [k \in 0 .. size |-> IF k >= c.count THEN 0 ELSE c.link_dirs[k]],
          count |-> c.count ]

\* Faulty variant: the first loop forgets `link_dirs[count] = link_dir`.
_compact_links_dirs_left(links, link_dirs, size) ==
    LET c == CompactCopy(links, link_dirs, size, 0, 0)
    IN  CompactPad(c.links, link_dirs, size, c.count)

\* Faulty variant: the first loop stops one slot early (range(size - 1)).
_compact_links_short(links, link_dirs, size) ==
    LET c == CompactCopy(links, link_dirs, size - 1, 0, 0)
    IN  CompactPad(c.links, c.link_dirs, size, c.count)

_compact_links(links, link_dirs, size) ==
    LET c == CompactCopy(links, link_dirs, size, 0, 0)
    IN  CompactPad(c.links, c.link_dirs, size, c.count)

(***************************************************************************)
(* _insertion_sort(keys, vals, dirs, size)                                 *)
(***************************************************************************)
\* The while loop: shift every entry at or below j whose key is greater than
\* `key` one slot up; returns the arrays and the final j.
RECURSIVE InsertionShift(_, _, _, _, _)
InsertionShift(keys, vals, dirs, j, key) ==
    IF j >= 0 /\ keys[j] > key
    THEN InsertionShift([keys EXCEPT ![j + 1] = keys[j]],
                        [vals EXCEPT ![j + 1] = vals[j]],
                        [dirs EXCEPT ![j + 1] = dirs[j]],
                        j - 1, key)
    ELSE [keys |-> keys, vals |-> vals, dirs |-> dirs, j |-> j]

\* The for loop, from i on.
RECURSIVE InsertionFrom(_, _, _, _, _)
InsertionFrom(keys, vals, dirs, size, i) ==
    IF i >= size
    THEN [keys |-> keys, vals |-> vals, dirs |-> dirs]
    ELSE LET key == keys[i]
             val == vals[i]
             dir_ == dirs[i]
             s == InsertionShift(keys, vals, dirs, i - 1, key)
         IN  InsertionFrom([s.keys EXCEPT ![s.j + 1] = key],
                           [s.vals EXCEPT ![s.j + 1] = val],
                           [s.dirs EXCEPT ![s.j + 1] = dir_],
                           size, i + 1)

\* Faulty variant: the while loop compares with >= and so passes equal keys.
RECURSIVE InsertionShiftGe(_, _, _, _, _)
InsertionShiftGe(keys, vals, dirs, j, key) ==
    IF j >= 0 /\ keys[j] >= key
    THEN InsertionShiftGe([keys EXCEPT ![j + 1] = keys[j]],
                          [vals EXCEPT ![j + 1] = vals[j]],
                          [dirs EXCEPT ![j + 1] = dirs[j]],
                          j - 1, key)
    ELSE [keys |-> keys, vals |-> vals, dirs |-> dirs, j |-> j]

RECURSIVE InsertionFromGe(_, _, _, _, _)
InsertionFromGe(keys, vals, dirs, size, i) ==
    IF i >= size
    THEN [keys |-> keys, vals |-> vals, dirs |-> dirs]
    ELSE LET s == InsertionShiftGe(keys, vals, dirs, i - 1, keys[i])
         IN  InsertionFromGe([s.keys EXCEPT ![s.j + 1] = keys[i]],
                             [s.vals EXCEPT ![s.j + 1] = vals[i]],
                             [s.dirs EXCEPT ![s.j + 1] = dirs[i]],
                             size, i + 1)

_insertion_sort_unstable(keys, vals, dirs, size) == InsertionFromGe(keys, vals, dirs, size, 1)

\* Faulty variant: the whole row is sorted, whatever `size` says.
_insertion_sort_whole_row(keys, vals, dirs, size) ==
    InsertionFrom(keys, vals, dirs, Cardinality(DOMAIN vals), 1)

\* Faulty variant: keys and vals are sorted, dirs stay where they were.
_insertion_sort_dirs_left(keys, vals, dirs, size) ==
    [InsertionFrom(keys, vals, dirs, size, 1) EXCEPT !.dirs = dirs]

_insertion_sort(keys, vals, dirs, size) == InsertionFrom(keys, vals, dirs, size, 1)

(***************************************************************************)
(* The body of the second loop of _sort_links_at_node_by_angle             *)
(***************************************************************************)
\* Faulty variant: a negative atan2 result is not shifted by 2 pi.
AngleOfLink_unshifted(n, link) ==
    LET tail == nodes_at_link[link][1]
        head == nodes_at_link[link][2]
    IN  IF tail = n
        THEN atan2(y_of_node[head] - y_of_node[n], x_of_node[head] - x_of_node[n])
        ELSE atan2(y_of_node[tail] - y_of_node[n], x_of_node[tail] - x_of_node[n])

\* Faulty variant: the head's coordinates are used whichever end n is.
AngleOfLink_head(n, link) ==
    LET head == nodes_at_link[link][2]
        angle == atan2(y_of_node[head] - y_of_node[n], x_of_node[head] - x_of_node[n])
    IN  IF angle < 0 THEN angle + 2 * M_PI ELSE angle

\* Lines 68-86: the key of `link` seen from node n.
AngleOfLink(n, link) ==
    LET tail == nodes_at_link[link][1]
        head == nodes_at_link[link][2]
        x0 == x_of_node[n]
        y0 == y_of_node[n]
        x1 == IF tail = n THEN x_of_node[head] ELSE x_of_node[tail]
        y1 == IF tail = n THEN y_of_node[head] ELSE y_of_node[tail]
        angle == atan2(y1 - y0, x1 - x0)
    IN  IF angle < 0 THEN angle + 2 * M_PI ELSE angle

\* Lines 67-88: angles[k] is written for k in range(count); the rest of the
\* buffer keeps what it held.
\* Faulty variant: the loop over k stops one slot early (range(count - 1)).
ComputeAngles_short(buf, n, links, count) ==
    [k \in DOMAIN buf |-> IF k < count - 1 THEN AngleOfLink(n, links[k]) ELSE buf[k]]

ComputeAngles(buf, n, links, count) ==
    [k \in DOMAIN buf |-> IF k < count THEN AngleOfLink(n, links[k]) ELSE buf[k]]

(***************************************************************************)
(* _sort_links_at_node_by_angle, one action per step                       *)
(***************************************************************************)
\* What a freshly malloc'ed angles buffer may hold: it is not initialised.
AngleJunk == {0, 2 * M_PI}

\* No subsidence grid is in use.
SubsideIdle ==
    /\ w = << >>
    /\ load = << >>
    /\ r = << >>
    /\ n_procs = 0
    /\ w0 = << >>
    /\ n_strips = 0
    /\ strips = << >>
    /\ results = << >>
    /\ row_load = 0
    /\ row = 0
    /\ pc_sub = "idle"
    /\ kernel_calls = << >>

\* The graph tables before any call: those of mesh m, row n replaced by raw.
Tables(m, n, raw) ==
    /\ nodes_at_link = m.nodes_at_link
    /\ x_of_node = m.x_of_node
    /\ y_of_node = m.y_of_node
    /\ links_at_node = [m.links_at_node EXCEPT ![n] = raw.links]
    /\ link_dirs_at_node = [m.link_dirs_at_node EXCEPT ![n] = raw.link_dirs]
    /\ angles = [k \in DOMAIN raw.links |-> 0]
    /\ n_links_at_node = [nn \in DOMAIN m.links_at_node |-> 0]
    /\ angles_mem = "none"
    /\ n_links_mem = "none"
    /\ node = 0
    /\ pc = "idle"
    /\ ncalls = 0
    /\ links0 = links_at_node
    /\ dirs0 = link_dirs_at_node
    /\ entered_from = "idle"
    /\ where = << >>
    /\ out = [x \in DOMAIN m.links_at_node |-> [k \in DOMAIN raw.links |-> -1]]
    /\ out0 = out
    /\ iter_k = << >>
    /\ pc_nbr = "idle"
    /\ result_obj = "none"
    /\ interleaved = FALSE
    /\ indexed = {}
    /\ row_pc = [nn \in DOMAIN m.links_at_node |-> "idle"]
    /\ angles_of = -1
    /\ intact = TRUE

\* The state before any call: the tables of mesh m, row n replaced by raw.
Start(m, n, raw) == Tables(m, n, raw) /\ SubsideIdle

Init ==
    \E m \in Meshes :
      \E n \in DOMAIN m.links_at_node :
        \E raw \in RawRows(m, n) : Start(m, n, raw)

\* Entry and lines 49-52: both buffers are requested; either malloc may fail.
Call ==
    /\ pc \in {"idle", "done", "raised"}
    /\ ncalls < MaxCalls
    /\ \E a_ok \in BOOLEAN, n_ok \in BOOLEAN, junk \in AngleJunk :
         /\ angles_mem' = IF a_ok THEN "live" ELSE "null"
         /\ n_links_mem' = IF n_ok THEN "live" ELSE "null"
         /\ angles' = [k \in 0 .. (shape1 - 1) |-> IF a_ok THEN junk ELSE 0]
         /\ pc' = IF a_ok /\ n_ok THEN "compact" ELSE "alloc_failed"
    /\ n_links_at_node' = [n \in Nodes |-> 0]
    /\ node' = 0
    /\ ncalls' = ncalls + 1
    /\ links0' = links_at_node
    /\ dirs0' = link_dirs_at_node
    /\ entered_from' = pc
    /\ UNCHANGED << sub_vars, inputs, links_at_node, link_dirs_at_node, nbr_vars, row_vars >>

\* libc free on a block: a second free of the same block is a double free.
free(mem) ==
    CASE mem = "live" -> "freed"
      [] mem = "freed" -> "double_freed"
      [] OTHER -> mem

\* `if p != NULL: free(p)` (lines 53-56 and 97-100).
FreeIfNotNull(mem) == IF mem # "null" THEN free(mem) ELSE mem

\* Faulty variant: the NULL check is missing and the loops are entered.
MallocFailed_ignored ==
    /\ pc = "alloc_failed"
    /\ pc' = "compact"
    /\ UNCHANGED << sub_vars, inputs, links_at_node, link_dirs_at_node, angles, n_links_at_node,
                    angles_mem, n_links_mem, node, ncalls, links0, dirs0, entered_from,
                    nbr_vars, row_vars >>

\* Faulty variant: the NULL test sits inside the try block, so the finally clause
\* runs after it.
MallocFailed_inside_try ==
    /\ pc = "alloc_failed"
    /\ angles_mem' = FreeIfNotNull(angles_mem)
    /\ n_links_mem' = FreeIfNotNull(n_links_mem)
    /\ pc' = "finally"
    /\ UNCHANGED << sub_vars, inputs, links_at_node, link_dirs_at_node, angles, n_links_at_node,
                    node, ncalls, links0, dirs0, entered_from, nbr_vars, row_vars >>

\* Lines 52-57: a buffer is NULL; the other is freed and MemoryError raised.
\* The raise is outside the try block: the finally clause does not run.
MallocFailed ==
    /\ pc = "alloc_failed"
    /\ angles_mem' = FreeIfNotNull(angles_mem)
    /\ n_links_mem' = FreeIfNotNull(n_links_mem)
    /\ pc' = "raised"
    /\ UNCHANGED << sub_vars, inputs, links_at_node, link_dirs_at_node, angles, n_links_at_node,
                    node, ncalls, links0, dirs0, entered_from, nbr_vars, row_vars >>

\* Lines 61-64: one iteration of the first loop.
CompactRow ==
    /\ pc = "compact"
    /\ LET c == _compact_links(links_at_node[node], link_dirs_at_node[node], shape1)
       IN  /\ links_at_node' = [links_at_node EXCEPT ![node] = c.links]
           /\ link_dirs_at_node' = [link_dirs_at_node EXCEPT ![node] = c.link_dirs]
           /\ n_links_at_node' = [n_links_at_node EXCEPT ![node] = c.count]
    /\ IF node + 1 < n_nodes
       THEN node' = node + 1 /\ pc' = "compact"
       ELSE node' = 0 /\ pc' = "angles"
    /\ UNCHANGED << sub_vars, inputs, angles, angles_mem, n_links_mem, ncalls, links0, dirs0,
                    entered_from, nbr_vars, row_vars >>

\* Lines 67-88: the keys of row `node` are written to the scratch buffer.
AnglesOfRow ==
    /\ pc = "angles"
    /\ angles' = ComputeAngles(angles, node, links_at_node[node], n_links_at_node[node])
    /\ pc' = "sort"
    /\ UNCHANGED << sub_vars, inputs, links_at_node, link_dirs_at_node, n_links_at_node,
                    angles_mem, n_links_mem, node, ncalls, links0, dirs0, entered_from,
                    nbr_vars, row_vars >>

\* Lines 90-95: row `node` is sorted; the loop goes on to the next row.
SortRow ==
    /\ pc = "sort"
    /\ LET s == _insertion_sort(angles, links_at_node[node], link_dirs_at_node[node],
                                n_links_at_node[node])
       IN  /\ angles' = s.keys
           /\ links_at_node' = [links_at_node EXCEPT ![node] = s.vals]
           /\ link_dirs_at_node' = [link_dirs_at_node EXCEPT ![node] = s.dirs]
    /\ IF node + 1 < n_nodes
       THEN node' = node + 1 /\ pc' = "angles"
       ELSE node' = node /\ pc' = "finally"
    /\ UNCHANGED << sub_vars, inputs, n_links_at_node, angles_mem, n_links_mem, ncalls,
                    links0, dirs0, entered_from, nbr_vars, row_vars >>

\* Lines 96-100: both buffers are freed and the call returns.
Finally ==
    /\ pc = "finally"
    /\ angles_mem' = FreeIfNotNull(angles_mem)
    /\ n_links_mem' = FreeIfNotNull(n_links_mem)
    /\ pc' = "done"
    /\ UNCHANGED << sub_vars, inputs, links_at_node, link_dirs_at_node, angles, n_links_at_node,
                    node, ncalls, links0, dirs0, entered_from, nbr_vars, row_vars >>

Next == Call \/ MallocFailed \/ CompactRow \/ AnglesOfRow \/ SortRow \/ Finally

Spec == Init /\ [][Next]_vars

(***************************************************************************)
(* The whole call on a mesh with coincident nodes and a link from a node   *)
(* to itself.                                                              *)
(***************************************************************************)
InitDegenerate ==
    \E n \in DOMAIN MeshDegenerate.links_at_node :
      \E raw \in RawRows(MeshDegenerate, n) : Start(MeshDegenerate, n, raw)

SpecDegenerate == InitDegenerate /\ [][Next]_vars

(***************************************************************************)
(* The entry and the first loop (lines 37-64) on a table of one row of any *)
(* width: _compact_links is applied to the row as the caller passed it.    *)
(***************************************************************************)
\* Widest row handed to _compact_links.
MaxWidth == 4

\* The ids an int32 table and an int64 table may hold: -1, two small ids and
\* the extreme values of the type.
Ids32 == {-1, 2, 5, IntMin(sizeof_int32_t), IntMax(sizeof_int32_t)}
Ids64 == {-1, 2, 5, IntMin(sizeof_int64_t), IntMax(sizeof_int64_t)}

\* Rows of the given width: ids of one type in any slot; the orientations either tell
\* the slots apart (-1, 0, 1, -1, ...) or are all 1.
AnyRows(width) ==
    { [ links |-> l, link_dirs |-> d ] :
      l \in [0 .. (width - 1) -> Ids32] \cup [0 .. (width - 1) -> Ids64],
      d \in { [k \in 0 .. (width - 1) |-> (k % 3) - 1], [k \in 0 .. (width - 1) |-> 1] } }

\* A table of one node and no link.
OneRowTable(raw) ==
    [ nodes_at_link |-> << >>,
      x_of_node |-> (0 :> 0),
      y_of_node |-> (0 :> 0),
      links_at_node |-> (0 :> raw.links),
      link_dirs_at_node |-> (0 :> raw.link_dirs) ]

InitCompact ==
    \E width \in 0 .. MaxWidth :
      \E raw \in AnyRows(width) : Start(OneRowTable(raw), 0, raw)

\* Lines 37-64; the second loop does not run in this specification.
NextCompact == Call \/ MallocFailed \/ CompactRow

SpecCompact == InitCompact /\ [][NextCompact]_vars

(***************************************************************************)
(* The whole call on a node with four links: the links of the centre node  *)
(* 0 point north, east, south and west, in that slot order.                *)
(***************************************************************************)
Row4(a, b, c, d) == (0 :> a) @@ (1 :> b) @@ (2 :> c) @@ (3 :> d)

\* The row of the leaf node n, whose one link n - 1 sits in slot p; the other
\* slots hold -1 and the orientation `stray`.
LeafRow(n, p, stray) ==
    [ links |-> [k \in 0 .. 3 |-> IF k = p THEN n - 1 ELSE -1],
      link_dirs |-> [k \in 0 .. 3 |-> IF k = p THEN (IF n \in {1, 3} THEN 1 ELSE -1)
                                               ELSE stray] ]

\* Node 0 at (1, 1); node 1 north, node 2 east, node 3 south and node 4 west
\* of it.  Links 0 and 2 leave node 0, links 1 and 3 arrive at it.
MeshCross(p, stray) ==
    [ nodes_at_link |-> (0 :> <<0, 1>>) @@ (1 :> <<2, 0>>) @@ (2 :> <<0, 3>>)
                        @@ (3 :> <<4, 0>>),
      x_of_node |-> (0 :> 1) @@ (1 :> 1) @@ (2 :> 2) @@ (3 :> 1) @@ (4 :> 0),
      y_of_node |-> (0 :> 1) @@ (1 :> 2) @@ (2 :> 1) @@ (3 :> 0) @@ (4 :> 1),
      links_at_node |-> (0 :> Row4(0, 1, 2, 3))
                        @@ [n \in 1 .. 4 |-> LeafRow(n, p, stray).links],
      link_dirs_at_node |-> (0 :> Row4(-1, 1, -1, 1))
                        @@ [n \in 1 .. 4 |-> LeafRow(n, p, stray).link_dirs] ]

InitScenarioA ==
    \E p \in 0 .. 3, stray \in {0, 1} :
      LET m == MeshCross(p, stray)
      IN  Start(m, 0, [links |-> m.links_at_node[0], link_dirs |-> m.link_dirs_at_node[0]])

SpecScenarioA == InitScenarioA /\ [][Next]_vars

(***************************************************************************)
(* _neighbors_via_connector(connectors_at_element, elements_at_connector,  *)
(* where, out), called for the nodes through the links.  The prange        *)
(* iterations run in any interleaving; x, k, y, x0, x1 and neighbor are    *)
(* private to an iteration, out is shared.                                 *)
(***************************************************************************)
\* Longest `where` passed to _neighbors_via_connector.
MaxWhere == 2

connectors_at_element == links_at_node
elements_at_connector == nodes_at_link
n_y_per_x == max_links_per_node

\* What the caller's out table may hold in every slot before the call.
OutFill == {-1, 0}

\* The `where` arrays: any element ids, repeated or not, in any order.
Wheres(elements) == UNION { [0 .. (len - 1) -> elements] : len \in 0 .. MaxWhere }

\* Faulty variant: the neighbor is always the connector's first element.
prange_body_first(o, i, k) ==
    LET x == where[i]
        y == connectors_at_element[x][k]
    IN  IF y < 0
        THEN [o EXCEPT ![x][k] = -1]
        ELSE [o EXCEPT ![x][k] = elements_at_connector[y][1]]

\* Faulty variant: the test is x1 == x, so an element the connector does not
\* list gets the connector's second element.
prange_body_second(o, i, k) ==
    LET x == where[i]
        y == connectors_at_element[x][k]
    IN  IF y < 0
        THEN [o EXCEPT ![x][k] = -1]
        ELSE LET x0 == elements_at_connector[y][1]
                 x1 == elements_at_connector[y][2]
             IN  [o EXCEPT ![x][k] = IF x1 = x THEN x0 ELSE x1]

\* Faulty variant: only -1 is taken as absent; any other negative id indexes
\* elements_at_connector from its end, as a Python index does.
prange_body_only_minus_one(o, i, k) ==
    LET x == where[i]
        y == connectors_at_element[x][k]
        n == Cardinality(DOMAIN elements_at_connector)
    IN  IF y = -1
        THEN [o EXCEPT ![x][k] = -1]
        ELSE LET x0 == elements_at_connector[y % n][1]
                 x1 == elements_at_connector[y % n][2]
             IN  [o EXCEPT ![x][k] = IF x0 = x THEN x1 ELSE x0]

\* Faulty variant: the result is written to row i of out, not to row x.
prange_body_row_i(o, i, k) ==
    LET x == where[i]
        y == connectors_at_element[x][k]
    IN  IF y < 0
        THEN [o EXCEPT ![i][k] = -1]
        ELSE LET x0 == elements_at_connector[y][1]
                 x1 == elements_at_connector[y][2]
             IN  [o EXCEPT ![i][k] = IF x0 = x THEN x1 ELSE x0]

\* Faulty variant: the connector is read from row i of connectors_at_element.
prange_body_read_i(o, i, k) ==
    LET x == where[i]
        y == connectors_at_element[i][k]
    IN  IF y < 0
        THEN [o EXCEPT ![x][k] = -1]
        ELSE LET x0 == elements_at_connector[y][1]
                 x1 == elements_at_connector[y][2]
             IN  [o EXCEPT ![x][k] = IF x0 = x THEN x1 ELSE x0]

\* Lines 31-46: the body of the loop over k, for iteration i of the prange;
\* o is out before, the value is out after.
prange_body(o, i, k) ==
    LET x == where[i]
        y == connectors_at_element[x][k]
    IN  IF y < 0
        THEN [o EXCEPT ![x][k] = -1]
        ELSE LET x0 == elements_at_connector[y][1]
                 x1 == elements_at_connector[y][2]
                 neighbor == IF x0 = x THEN x1 ELSE x0
             IN  [o EXCEPT ![x][k] = neighbor]

\* Lines 33-39: the ids iteration i indexes elements_at_connector with for
\* slot k; the `continue` of line 36 comes before the two reads.
prange_reads(i, k) ==
    LET x == where[i]
        y == connectors_at_element[x][k]
    IN  IF y < 0 THEN {} ELSE {y}

\* The tables of mesh m with slot 0 of row n overwritten by v.
OneSlotStart(m, n, v) ==
    Start(m, n,
          [ links |-> [m.links_at_node[n] EXCEPT ![0] = v],
            link_dirs |-> [m.link_dirs_at_node[n] EXCEPT
                             ![0] = IF v < 0 THEN 0 ELSE RawDir(m, n, v)] ])

\* The tables the resolver is run on: those of a mesh with one slot
\* overwritten by a link, by -1, or by another negative id.
InitNbr ==
    \E m \in Meshes :
      \E n \in DOMAIN m.links_at_node :
        \E v \in (DOMAIN m.nodes_at_link) \cup {-1, -2} : OneSlotStart(m, n, v)

\* Lines 14-29: the call, with the caller's `where` and out.
NbrCall ==
    /\ pc_nbr = "idle"
    /\ \E wh \in Wheres(Nodes), fill \in OutFill :
         /\ where' = wh
         /\ out' = [x \in Nodes |-> [k \in Slots |-> fill]]
         /\ out0' = out'
         /\ iter_k' = [i \in DOMAIN wh |-> 0]
    /\ pc_nbr' = "prange"
    /\ indexed' = {}
    /\ UNCHANGED << sub_vars, inputs, sort_vars, result_obj, interleaved, row_vars >>

\* Lines 32-46: iteration i executes its loop body for its next k.
NbrStep(i) ==
    /\ pc_nbr = "prange"
    /\ iter_k[i] < n_y_per_x
    /\ out' = prange_body(out, i, iter_k[i])
    /\ iter_k' = [iter_k EXCEPT ![i] = iter_k[i] + 1]
    /\ interleaved' = (interleaved \/ \E j \in DOMAIN where :
                                        j # i /\ 0 < iter_k[j] /\ iter_k[j] < n_y_per_x)
    /\ indexed' = indexed \cup prange_reads(i, iter_k[i])
    /\ UNCHANGED << sub_vars, inputs, sort_vars, where, out0, pc_nbr, result_obj, row_vars >>

\* Line 48: every iteration is finished; the base object of out is returned.
NbrReturn ==
    /\ pc_nbr = "prange"
    /\ \A i \in DOMAIN where : iter_k[i] = n_y_per_x
    /\ result_obj' = "out"
    /\ pc_nbr' = "returned"
    /\ UNCHANGED << sub_vars, inputs, sort_vars, where, out, out0, iter_k, interleaved, indexed,
                    row_vars >>

NextNbr == NbrCall \/ (\E i \in DOMAIN where : NbrStep(i)) \/ NbrReturn

SpecNbr == InitNbr /\ [][NextNbr]_vars

(***************************************************************************)
(* The two functions on a table that holds a negative id other than -1:    *)
(* _neighbors_via_connector on the table as built, and the entry and first *)
(* loop of _sort_links_at_node_by_angle on the same table afterwards.      *)
(***************************************************************************)
\* The tables of a mesh with one slot overwritten by -1 or by -2.
InitNegative ==
    \E m \in Meshes :
      \E n \in DOMAIN m.links_at_node :
        \E v \in {-1, -2} : OneSlotStart(m, n, v)

NextNegative ==
    \/ pc = "idle" /\ NextNbr
    \/ pc_nbr = "returned" /\ NextCompact

SpecNegative == InitNegative /\ [][NextNegative]_vars

(***************************************************************************)
(* The per-row steps of _sort_links_at_node_by_angle run for the rows in   *)
(* any order, as a parallel loop over rows would run them.  A row is       *)
(* compacted (lines 62-64), then its keys are written to the one angles    *)
(* buffer of the call (lines 67-88), then it is sorted by that buffer      *)
(* (lines 90-95).                                                          *)
(***************************************************************************)
\* The tables the rows are run on: those of a mesh with one slot overwritten
\* by a link or by -1.
InitRows ==
    \E m \in Meshes :
      \E n \in DOMAIN m.links_at_node :
        \E v \in (DOMAIN m.nodes_at_link) \cup {-1} : OneSlotStart(m, n, v)

\* Entry and lines 49-50, both buffers allocated.
RowsCall ==
    /\ pc = "idle"
    /\ \E junk \in AngleJunk : angles' = [k \in Slots |-> junk]
    /\ angles_mem' = "live"
    /\ n_links_mem' = "live"
    /\ n_links_at_node' = [n \in Nodes |-> 0]
    /\ ncalls' = ncalls + 1
    /\ links0' = links_at_node
    /\ dirs0' = link_dirs_at_node
    /\ entered_from' = pc
    /\ pc' = "rows"
    /\ row_pc' = [n \in Nodes |-> "compact"]
    /\ angles_of' = -1
    /\ intact' = TRUE
    /\ UNCHANGED << sub_vars, inputs, links_at_node, link_dirs_at_node, node, nbr_vars >>

\* Lines 62-64 for row n.
RowCompact(n) ==
    /\ pc = "rows"
    /\ row_pc[n] = "compact"
    /\ LET c == _compact_links(links_at_node[n], link_dirs_at_node[n], max_links_per_node)
       IN  /\ links_at_node' = [links_at_node EXCEPT ![n] = c.links]
           /\ link_dirs_at_node' = [link_dirs_at_node EXCEPT ![n] = c.link_dirs]
           /\ n_links_at_node' = [n_links_at_node EXCEPT ![n] = c.count]
    /\ row_pc' = [row_pc EXCEPT ![n] = "angles"]
    /\ UNCHANGED << sub_vars, inputs, angles, angles_mem, n_links_mem, node, pc, ncalls, links0,
                    dirs0, entered_from, nbr_vars, angles_of, intact >>

\* Lines 67-88 for row n.
RowAngles(n) ==
    /\ pc = "rows"
    /\ row_pc[n] = "angles"
    /\ angles' = ComputeAngles(angles, n, links_at_node[n], n_links_at_node[n])
    /\ row_pc' = [row_pc EXCEPT ![n] = "sort"]
    /\ angles_of' = n
    /\ UNCHANGED << sub_vars, inputs, links_at_node, link_dirs_at_node, n_links_at_node, angles_mem,
                    n_links_mem, node, pc, ncalls, links0, dirs0, entered_from, nbr_vars,
                    intact >>

\* Lines 90-95 for row n.
RowSort(n) ==
    /\ pc = "rows"
    /\ row_pc[n] = "sort"
    /\ LET s == _insertion_sort(angles, links_at_node[n], link_dirs_at_node[n],
                                n_links_at_node[n])
       IN  /\ angles' = s.keys
           /\ links_at_node' = [links_at_node EXCEPT ![n] = s.vals]
           /\ link_dirs_at_node' = [link_dirs_at_node EXCEPT ![n] = s.dirs]
    /\ row_pc' = [row_pc EXCEPT ![n] = "sorted"]
    /\ intact' = (intact /\ angles_of = n)
    /\ UNCHANGED << sub_vars, inputs, n_links_at_node, angles_mem, n_links_mem, node, pc, ncalls,
                    links0, dirs0, entered_from, nbr_vars, angles_of >>

\* Lines 96-100, once every row is sorted.
RowsFinally ==
    /\ pc = "rows"
    /\ \A n \in Nodes : row_pc[n] = "sorted"
    /\ angles_mem' = "freed"
    /\ n_links_mem' = "freed"
    /\ pc' = "done"
    /\ UNCHANGED << sub_vars, inputs, links_at_node, link_dirs_at_node, angles, n_links_at_node,
                    node, ncalls, links0, dirs0, entered_from, nbr_vars, row_vars >>

\* Every per-row step of every row interleaves freely.
NextInterleaved ==
    \/ RowsCall
    \/ \E n \in Nodes : RowCompact(n)
    \/ \E n \in Nodes : RowAngles(n)
    \/ \E n \in Nodes : RowSort(n)
    \/ RowsFinally

SpecInterleaved == InitRows /\ [][NextInterleaved]_vars

(***************************************************************************)
(* The data flow of the package: the raw tables are normalized by          *)
(* _sort_links_at_node_by_angle, then _neighbors_via_connector is run on   *)
(* the normalized tables for every node (where = arange(n_nodes)).         *)
(***************************************************************************)
\* Lines 14-29, called with every element in `where`, in index order.
NbrCallAll ==
    /\ pc_nbr = "idle"
    /\ where' = [i \in 0 .. (n_nodes - 1) |-> i]
    /\ \E fill \in OutFill : out' = [x \in Nodes |-> [k \in Slots |-> fill]]
    /\ out0' = out'
    /\ iter_k' = [i \in 0 .. (n_nodes - 1) |-> 0]
    /\ pc_nbr' = "prange"
    /\ indexed' = {}
    /\ UNCHANGED << sub_vars, inputs, sort_vars, result_obj, interleaved, row_vars >>

\* The normalization runs first, any number of times; the resolver runs on
\* what a returned normalization left.
NextPipeline ==
    \/ pc_nbr = "idle" /\ Next
    \/ pc = "done" /\ NbrCallAll
    \/ \E i \in DOMAIN where : NbrStep(i)
    \/ NbrReturn

SpecPipeline == InitRows /\ [][NextPipeline]_vars

(***************************************************************************)
(* The subsidence code of _neighbors.pyx: subside_parallel_row,            *)
(* subside_grid, subside_grid_strip, tile_grid_into_strips and             *)
(* subside_grid_in_parallel.  Loads and deflections are counted in units   *)
(* of 1e-6, and alpha and gamma_mantle are such that inv_c is 1.           *)
(***************************************************************************)
\* Most rows and columns of a grid.
MaxRows == 5
MaxCols == 2

\* 1e-6 (line 81), in the unit loads are counted in.
Threshold == 1
\* 1. / (2. * np.pi * gamma_mantle * alpha ** 2.) (line 73).
inv_c == 1

graph_vars == << inputs, sort_vars, nbr_vars, row_vars >>

nrows == Cardinality(DOMAIN w)

fabs(v) == IF v < 0 THEN 0 - v ELSE v

\* np.zeros((n, m)).
zeros(n, m) == [j \in 0 .. (n - 1) |-> [col \in 0 .. (m - 1) |-> 0]]

\* Lines 80-89, the loops that follow the return of line 78, from column
\* col_load on.
RECURSIVE LoopsFrom(_, _, _, _)
LoopsFrom(w_row, load_row, r_row, col_load) ==
    IF col_load >= Cardinality(DOMAIN w_row)
    THEN w_row
    ELSE LET c == load_row[col_load] * inv_c
             added == [col \in DOMAIN w_row |->
                         IF col < col_load
                         THEN w_row[col] - c * r_row[col_load - col]
                         ELSE w_row[col] - c * r_row[col - col_load]]
         IN  LoopsFrom(IF fabs(load_row[col_load]) > Threshold THEN added ELSE w_row,
                       load_row, r_row, col_load + 1)

\* Lines 65-78: the function returns at line 78, before the loops; the row it
\* was given is as it was.
subside_parallel_row(w_row, load_row, r_row) == w_row

\* Lines 104-111 from iteration (i, j) on; the two inner loops together visit
\* the rows in index order.
RECURSIVE GridFrom(_, _, _)
GridFrom(grid, i, j) ==
    IF i >= Cardinality(DOMAIN grid)
    THEN grid
    ELSE IF j >= Cardinality(DOMAIN grid)
         THEN GridFrom(grid, i + 1, 0)
         ELSE GridFrom([grid EXCEPT ![j] =
                          subside_parallel_row(grid[j], load[i],
                                               r[IF j < i THEN i - j ELSE j - i])],
                       i, j + 1)

subside_grid(grid) == GridFrom(grid, 0, 0)

\* Lines 128-130 from iteration (i, j) on; dz is indexed from 0.
RECURSIVE StripFrom(_, _, _, _)
StripFrom(dz, strip_range, i, j) ==
    LET start == strip_range[1]
        stop == strip_range[2]
    IN  IF i >= Cardinality(DOMAIN load)
        THEN dz
        ELSE IF j >= stop
             THEN StripFrom(dz, strip_range, i + 1, start)
             ELSE StripFrom([dz EXCEPT ![j - start] =
                               subside_parallel_row(dz[j - start], load[i], r[fabs(j - i)])],
                            strip_range, i, j + 1)

\* Lines 114-132.
subside_grid_strip(strip_range) ==
    StripFrom(zeros(strip_range[2] - strip_range[1], Cardinality(DOMAIN load[0])),
              strip_range, 0, strip_range[1])

\* np.arange(first, last, step) for step > 0, as a sequence.
arange(first, last, step) ==
    [s \in 1 .. ((last - first + step - 1) \div step) |-> first + (s - 1) * step]

\* Faulty variant: the last stop is not set to the number of rows.
tile_grid_into_strips_unclipped(grid, n) ==
    LET rows_per_strip == Cardinality(DOMAIN grid) \div n
        starts == arange(0, Cardinality(DOMAIN grid), rows_per_strip)
    IN  [s \in DOMAIN starts |-> << starts[s], starts[s] + rows_per_strip >>]

\* Lines 135-142, for rows_per_strip > 0.
tile_grid_into_strips(grid, n) ==
    LET rows_per_strip == Cardinality(DOMAIN grid) \div n
        starts == arange(0, Cardinality(DOMAIN grid), rows_per_strip)
        stops == [s \in DOMAIN starts |->
                    IF s = Len(starts)
                    THEN Cardinality(DOMAIN grid)
                    ELSE starts[s] + rows_per_strip]
    IN  [s \in DOMAIN starts |-> << starts[s], stops[s] >>]

\* Faulty variant: the strip result is assigned to the rows, not added.
AddResult_assigned(grid, dz, strip_range) ==
    [j \in DOMAIN grid |->
       IF strip_range[1] <= j /\ j < strip_range[2] THEN dz[j - strip_range[1]] ELSE grid[j]]

\* Line 169: w[start:stop] += dz.
AddResult(grid, dz, strip_range) ==
    [j \in DOMAIN grid |->
       IF strip_range[1] <= j /\ j < strip_range[2]
       THEN [col \in DOMAIN grid[j] |-> grid[j][col] + dz[j - strip_range[1]][col]]
       ELSE grid[j]]

\* Lines 167-169 from result s on.
RECURSIVE AddResultsFrom(_, _)
AddResultsFrom(grid, s) ==
    IF s > Len(results)
    THEN grid
    ELSE AddResultsFrom(AddResult(grid, results[s], strips[s]), s + 1)

\* The grids a call is made on: w holds a different value in every row, one
\* cell of load holds a load at the threshold or above it, r is nowhere 0.
InitSubside ==
    /\ Tables(OneRowTable([links |-> << >>, link_dirs |-> << >>]), 0,
              [links |-> << >>, link_dirs |-> << >>])
    /\ \E nr \in 1 .. MaxRows, nc \in 1 .. MaxCols :
         /\ w = [j \in 0 .. (nr - 1) |-> [col \in 0 .. (nc - 1) |-> 5 + j]]
         /\ \E a \in 0 .. (nr - 1), b \in 0 .. (nc - 1), v \in {Threshold, Threshold + 1} :
              load = [j \in 0 .. (nr - 1) |->
                        [col \in 0 .. (nc - 1) |-> IF j = a /\ col = b THEN v ELSE 0]]
         /\ r = [j \in 0 .. (nr - 1) |-> [col \in 0 .. (nc - 1) |-> 1 + j + col]]
         /\ n_procs \in 1 .. (nr + 1)
         /\ kernel_calls = [c \in (0 .. (nr - 1)) \X (0 .. (nr - 1)) |-> 0]
    /\ w0 = w
    /\ n_strips = 0
    /\ strips = << >>
    /\ results = << >>
    /\ row_load = 0
    /\ row = 0
    /\ pc_sub = "idle"

\* tile_grid_into_strips(w, n) called by itself; np.arange raises
\* ZeroDivisionError when rows_per_strip is 0.
TileCall ==
    /\ pc_sub = "idle"
    /\ \E n \in 1 .. (nrows + 1) :
         /\ n_strips' = n
         /\ IF nrows \div n = 0
            THEN strips' = strips /\ pc_sub' = "raised"
            ELSE strips' = tile_grid_into_strips(w, n) /\ pc_sub' = "tiled"
    /\ UNCHANGED << graph_vars, w, load, r, n_procs, w0, results, row_load, row,
                    kernel_calls >>

\* Lines 157-158: n_procs == 1, subside_grid is entered.
SerialCall ==
    /\ pc_sub = "idle"
    /\ n_procs = 1
    /\ row_load' = 0
    /\ row' = 0
    /\ pc_sub' = "serial"
    /\ UNCHANGED << graph_vars, w, load, r, n_procs, w0, n_strips, strips, results,
                    kernel_calls >>

\* Lines 104-111: one call of subside_parallel_row, for (row_load, row).
SerialStep ==
    /\ pc_sub = "serial"
    /\ w' = [w EXCEPT ![row] =
               subside_parallel_row(w[row], load[row_load],
                                    r[IF row < row_load THEN row_load - row
                                                        ELSE row - row_load])]
    /\ kernel_calls' = [kernel_calls EXCEPT ![<< row, row_load >>] = @ + 1]
    /\ IF row + 1 < nrows
       THEN row' = row + 1 /\ row_load' = row_load /\ pc_sub' = "serial"
       ELSE IF row_load + 1 < nrows
            THEN row' = 0 /\ row_load' = row_load + 1 /\ pc_sub' = "serial"
            ELSE row' = row /\ row_load' = row_load /\ pc_sub' = "done"
    /\ UNCHANGED << graph_vars, load, r, n_procs, w0, n_strips, strips, results >>

\* Lines 160-166: the grid is tiled and a worker is given every strip.
ParallelCall ==
    /\ pc_sub = "idle"
    /\ n_procs # 1
    /\ n_strips' = n_procs
    /\ IF nrows \div n_procs = 0
       THEN strips' = strips /\ results' = results /\ pc_sub' = "raised"
       ELSE /\ strips' = tile_grid_into_strips(w, n_procs)
            /\ results' = [s \in DOMAIN strips' |-> << >>]
            /\ pc_sub' = "map"
    /\ UNCHANGED << graph_vars, w, load, r, n_procs, w0, row_load, row, kernel_calls >>

\* A worker finishes subside_grid_strip for strip s.
StripDone(s) ==
    /\ pc_sub = "map"
    /\ results[s] = << >>
    /\ results' = [results EXCEPT ![s] = subside_grid_strip(strips[s])]
    /\ kernel_calls' = [c \in DOMAIN kernel_calls |->
                          IF strips[s][1] <= c[1] /\ c[1] < strips[s][2]
                          THEN kernel_calls[c] + 1
                          ELSE kernel_calls[c]]
    /\ UNCHANGED << graph_vars, w, load, r, n_procs, w0, n_strips, strips, row_load, row,
                    pc_sub >>

\* Lines 166-169: pool.map returns the results in the order of the strips,
\* and each is added to its rows of w.
Reduce ==
    /\ pc_sub = "map"
    /\ \A s \in DOMAIN results : results[s] # << >>
    /\ w' = AddResultsFrom(w, 1)
    /\ pc_sub' = "done"
    /\ UNCHANGED << graph_vars, load, r, n_procs, w0, n_strips, strips, results,
                    row_load, row, kernel_calls >>

NextSubside ==
    \/ TileCall
    \/ SerialCall
    \/ SerialStep
    \/ ParallelCall
    \/ \E s \in DOMAIN results : StripDone(s)
    \/ Reduce

SpecSubside == InitSubside /\ [][NextSubside]_vars

\* The tables the two loops of lines 61-95 leave when run in index order
\* from row n on: L, D are the tables, buf the angles buffer.
RECURSIVE SortRowsFrom(_, _, _, _, _)
SortRowsFrom(n, L, D, counts, buf) ==
    IF n \notin DOMAIN L
    THEN [links |-> L, link_dirs |-> D]
    ELSE LET a == ComputeAngles(buf, n, L[n], counts[n])
             s == _insertion_sort(a, L[n], D[n], counts[n])
         IN  SortRowsFrom(n + 1, [L EXCEPT ![n] = s.vals], [D EXCEPT ![n] = s.dirs],
                          counts, s.keys)

InIndexOrder(L, D, buf) ==
    LET c == [n \in DOMAIN L |-> _compact_links(L[n], D[n], max_links_per_node)]
    IN  SortRowsFrom(0,
                     [n \in DOMAIN L |-> c[n].links],
                     [n \in DOMAIN L |-> c[n].link_dirs],
                     [n \in DOMAIN L |-> c[n].count],
                     buf)

\* What lines 62-64 and 67-95 make of one row of node n, taken alone, when
\* the angles buffer holds buf as the row's keys are computed.
RowAlone(n, links, link_dirs, buf) ==
    LET c == _compact_links(links, link_dirs, max_links_per_node)
        a == ComputeAngles(buf, n, c.links, c.count)
        s == _insertion_sort(a, c.links, c.link_dirs, c.count)
    IN  [links |-> s.vals, link_dirs |-> s.dirs]

(***************************************************************************)
(* Vocabulary of the properties                                            *)
(***************************************************************************)
Returned == pc = "done"

\* Link `link` lists node n as its tail or its head.
ListsNode(n, link) == nodes_at_link[link][1] = n \/ nodes_at_link[link][2] = n

\* Every valid slot of `links`, a row of node n, holds a link that lists n.
RowConsistent(n, links) ==
    \A k \in Slots : links[k] # -1 => ListsNode(n, links[k])

\* The endpoint of `link` that is not n.
FarEndpoint(n, link) ==
    IF nodes_at_link[link][2] = n THEN nodes_at_link[link][1] ELSE nodes_at_link[link][2]

\* The polar angle in [0, 2 pi) of the direction from node n to node f.
PolarAngle(n, f) ==
    LET a == atan2(y_of_node[f] - y_of_node[n], x_of_node[f] - x_of_node[n])
    IN  IF a < 0 THEN a + 2 * M_PI ELSE a

ValidSlots(links) == {k \in Slots : links[k] # -1}

\* The (link, direction) pairs of the valid slots of a row, in slot order.
RECURSIVE PairsFrom(_, _, _)
PairsFrom(links, link_dirs, k) ==
    IF k >= max_links_per_node
    THEN << >>
    ELSE (IF links[k] # -1 THEN << <<links[k], link_dirs[k]>> >> ELSE << >>)
         \o PairsFrom(links, link_dirs, k + 1)

ValidPairs(links, link_dirs) == PairsFrom(links, link_dirs, 0)

\* How many slots of the row hold the pair p.
Occurrences(links, link_dirs, p) ==
    Cardinality({k \in Slots : <<links[k], link_dirs[k]>> = p})

PairsOf(links, link_dirs) == {<<links[k], link_dirs[k]>> : k \in Slots}

\* The (link, direction) pairs of the valid slots k .. size-1 of a row of any
\* width, in slot order.
RECURSIVE PairsOfWidth(_, _, _, _)
PairsOfWidth(links, link_dirs, k, size) ==
    IF k >= size
    THEN << >>
    ELSE (IF links[k] # -1 THEN << <<links[k], link_dirs[k]>> >> ELSE << >>)
         \o PairsOfWidth(links, link_dirs, k + 1, size)

\* The first loop is over: every row is compacted and nothing else was done.
Compacted == pc = "angles" /\ node = 0

\* The row was rearranged by the call.
RowMoved(n) == links_at_node[n] # links0[n]

\* C1: after the call, in every row whose links all list the node, the polar
\* angles toward the far endpoints of adjacent valid slots are non-decreasing.
C1_SortedByAngle ==
    Returned =>
      \A n \in Nodes :
        RowConsistent(n, links_at_node[n]) =>
          \A k \in Slots :
            (k + 1 \in Slots /\ links_at_node[n][k] # -1 /\ links_at_node[n][k + 1] # -1)
              => PolarAngle(n, FarEndpoint(n, links_at_node[n][k]))
                   <= PolarAngle(n, FarEndpoint(n, links_at_node[n][k + 1]))

\* A returned call that reordered a consistent row of three links at three
\* different angles.
C1_Witness ==
    /\ Returned
    /\ \E n \in Nodes :
         /\ RowConsistent(n, links_at_node[n])
         /\ RowMoved(n)
         /\ \A k \in Slots : k < 3 => links_at_node[n][k] # -1
         /\ PolarAngle(n, FarEndpoint(n, links_at_node[n][0]))
              < PolarAngle(n, FarEndpoint(n, links_at_node[n][1]))
         /\ PolarAngle(n, FarEndpoint(n, links_at_node[n][1]))
              < PolarAngle(n, FarEndpoint(n, links_at_node[n][2]))

\* The pairs of a row of node n whose key is a, in slot order.
TiedAt(n, links, link_dirs, a) ==
    SelectSeq(ValidPairs(links, link_dirs), LAMBDA p : AngleOfLink(n, p[1]) = a)

KeysOfRow(n, links) == {AngleOfLink(n, links[k]) : k \in ValidSlots(links)}

\* C2: the sort is stable: for every key, the connectors of a row that have
\* that key are, after the call, in the slot order they had before it.
C2_Stable ==
    Returned =>
      \A n \in Nodes :
        \A a \in KeysOfRow(n, links0[n]) :
          TiedAt(n, links_at_node[n], link_dirs_at_node[n], a)
            = TiedAt(n, links0[n], dirs0[n], a)

\* A returned call that moved a row in which two different links have equal
\* keys.
C2_Witness ==
    /\ Returned
    /\ \E n \in Nodes :
         /\ RowMoved(n)
         /\ \E j \in Slots, k \in Slots :
              /\ j < k
              /\ links_at_node[n][j] # -1
              /\ links_at_node[n][k] # -1
              /\ links_at_node[n][j] # links_at_node[n][k]
              /\ AngleOfLink(n, links_at_node[n][j]) = AngleOfLink(n, links_at_node[n][k])

\* C3 as stated: the multiset of the (connector, orientation) pairs of all the
\* slots of a row is the same after the call as before it.
C3_AllPairsPreserved ==
    Returned =>
      \A n \in Nodes :
        \A p \in PairsOf(links0[n], dirs0[n]) \cup PairsOf(links_at_node[n], link_dirs_at_node[n]) :
          Occurrences(links_at_node[n], link_dirs_at_node[n], p)
            = Occurrences(links0[n], dirs0[n], p)

\* C3 amended: the multiset of the pairs of the valid slots is preserved, and
\* every other slot ends as (-1, 0) whatever orientation it carried.
C3_ValidPairsPreserved ==
    Returned =>
      \A n \in Nodes :
        /\ \A p \in PairsOf(links0[n], dirs0[n]) \cup PairsOf(links_at_node[n], link_dirs_at_node[n]) :
             p[1] # -1 =>
               Occurrences(links_at_node[n], link_dirs_at_node[n], p)
                 = Occurrences(links0[n], dirs0[n], p)
        /\ \A k \in Slots :
             links_at_node[n][k] = -1 => link_dirs_at_node[n][k] = 0

\* A returned call on a row that had a valid link behind a -1 slot carrying a
\* stray orientation.
C3_Witness ==
    /\ Returned
    /\ \E n \in Nodes :
         \E j \in Slots, k \in Slots :
           j < k /\ links0[n][j] = -1 /\ dirs0[n][j] # 0 /\ links0[n][k] # -1

\* C4: the number of valid entries of a row is the same after the call as
\* before it, it is the count _compact_links returned for the row, and every
\* link id occurs in the row as often as before.
C4_CountPreserved ==
    Returned =>
      \A n \in Nodes :
        /\ Cardinality(ValidSlots(links_at_node[n])) = Cardinality(ValidSlots(links0[n]))
        /\ n_links_at_node[n] = Cardinality(ValidSlots(links0[n]))
        /\ \A link \in Links :
             Cardinality({k \in Slots : links_at_node[n][k] = link})
               = Cardinality({k \in Slots : links0[n][k] = link})

\* A returned call on a row that had a gap in front of a valid link and held
\* one link twice.
C4_Witness ==
    /\ Returned
    /\ \E n \in Nodes :
         /\ links0[n][0] = -1
         /\ \E j \in Slots, k \in Slots :
              j < k /\ links0[n][j] # -1 /\ links0[n][j] = links0[n][k]

\* C5: one slot permutation takes every valid (connector, orientation) pair of
\* a row from its slot before the call to its slot after it.
C5_DirsTravel ==
    Returned =>
      \A n \in Nodes :
        \E perm \in [Slots -> Slots] :
          /\ \A j \in Slots, k \in Slots : perm[j] = perm[k] => j = k
          /\ \A j \in Slots :
               links0[n][j] # -1 =>
                 /\ links_at_node[n][perm[j]] = links0[n][j]
                 /\ link_dirs_at_node[n][perm[j]] = dirs0[n][j]

\* A returned call that moved a row holding links of both directions.
C5_Witness ==
    /\ Returned
    /\ \E n \in Nodes :
         /\ RowMoved(n)
         /\ \E j \in Slots, k \in Slots :
              /\ links0[n][j] # -1
              /\ links0[n][k] # -1
              /\ dirs0[n][j] # dirs0[n][k]

\* C6: a call made on the tables a returned call left changes no slot.
C6_Idempotent ==
    (Returned /\ entered_from = "done") =>
      /\ links_at_node = links0
      /\ link_dirs_at_node = dirs0

\* A second call returned, on tables whose first call had to close a gap and
\* met two links at one angle.
C6_Witness ==
    /\ Returned
    /\ entered_from = "done"
    /\ \E n \in Nodes :
         /\ links_at_node[n][max_links_per_node - 1] = -1
         /\ links_at_node[n][0] # -1
         /\ links_at_node[n][1] # -1
         /\ links_at_node[n][0] # links_at_node[n][1]
         /\ AngleOfLink(n, links_at_node[n][0]) = AngleOfLink(n, links_at_node[n][1])

NbrReturned == pc_nbr = "returned"

\* What lines 33-46 leave in out[x, k].
Resolved(x, k) ==
    LET y == connectors_at_element[x][k]
    IN  IF y < 0
        THEN -1
        ELSE IF elements_at_connector[y][1] = x
             THEN elements_at_connector[y][2]
             ELSE elements_at_connector[y][1]

\* C7: for every element x of `where` and every slot k, the result is -1 where
\* the connector is -1, and the connector's other element where the connector
\* lists x.
C7_ResolverCorrect ==
    NbrReturned =>
      \A i \in DOMAIN where :
        \A k \in Slots :
          LET x == where[i]
              y == connectors_at_element[x][k]
          IN  /\ y = -1 => out[x][k] = -1
              /\ (y >= 0 /\ ListsNode(x, y)) => out[x][k] = FarEndpoint(x, y)

\* A returned call whose `where` reaches a slot holding -1, a connector whose
\* first element is x and a connector whose second element is x.
C7_Witness ==
    /\ NbrReturned
    /\ \E i \in DOMAIN where, k \in Slots : connectors_at_element[where[i]][k] = -1
    /\ \E i \in DOMAIN where, k \in Slots :
         LET y == connectors_at_element[where[i]][k]
         IN  y >= 0 /\ elements_at_connector[y][1] = where[i]
                    /\ out[where[i]][k] # out0[where[i]][k]
    /\ \E i \in DOMAIN where, k \in Slots :
         LET y == connectors_at_element[where[i]][k]
         IN  y >= 0 /\ elements_at_connector[y][2] = where[i]
                    /\ out[where[i]][k] # out0[where[i]][k]

\* C8 as stated: the returned table is a new one with one row per entry of
\* `where`, row i holding the neighbors of where[i], and the caller's arrays
\* are as they were.
C8_FreshSubsetTable ==
    NbrReturned =>
      /\ result_obj = "fresh"
      /\ out = out0
      /\ DOMAIN out = DOMAIN where
      /\ \A i \in DOMAIN where : \A k \in Slots : out[i][k] = Resolved(where[i], k)

\* C8 amended: the returned object is the caller's out table, which has one
\* row per element; its row where[i] holds the neighbors of where[i]; the
\* connector table is as it was.
C8_WritesCallersOut ==
    NbrReturned =>
      /\ result_obj = "out"
      /\ DOMAIN out = DOMAIN connectors_at_element
      /\ \A i \in DOMAIN where : \A k \in Slots : out[where[i]][k] = Resolved(where[i], k)
      /\ connectors_at_element = links0

\* A returned call for a single element that is not element 0 and whose
\* neighbors differ from what out held.
C8_Witness ==
    /\ NbrReturned
    /\ DOMAIN where = {0}
    /\ where[0] # 0
    /\ \E k \in Slots : out[where[0]][k] # out0[where[0]][k]
    /\ out[0] = out0[0]

\* out after the prange iterations are run one after another in index order,
\* from iteration i, slot k on.
RECURSIVE SequentialFrom(_, _, _)
SequentialFrom(o, i, k) ==
    IF i \notin DOMAIN where
    THEN o
    ELSE IF k >= n_y_per_x
         THEN SequentialFrom(o, i + 1, 0)
         ELSE SequentialFrom(prange_body(o, i, k), i, k + 1)

\* C9: whatever the interleaving of the prange iterations, out ends as the
\* sequential execution in index order leaves it.
C9_RaceFree ==
    NbrReturned => out = SequentialFrom(out0, 0, 0)

\* A returned call whose `where` lists one element twice, whose iterations
\* were interleaved, and which changed out.
C9_Witness ==
    /\ NbrReturned
    /\ interleaved
    /\ \E i \in DOMAIN where, j \in DOMAIN where : i # j /\ where[i] = where[j]
    /\ out # out0

\* The tables are those the loops leave when run in index order, for some
\* initial contents of the angles buffer.
AsInIndexOrder ==
    \E junk \in AngleJunk :
      LET t == InIndexOrder(links0, dirs0, [k \in Slots |-> junk])
      IN  links_at_node = t.links /\ link_dirs_at_node = t.link_dirs

\* C10 as stated: with the per-row steps of distinct rows interleaved freely,
\* the call leaves the tables it leaves when the rows run in index order.
C10_AnyInterleaving == Returned => AsInIndexOrder

\* C10 amended: in every interleaving of the per-row steps in which each sort
\* read the keys of its own row (no other row's keys were written to the one
\* angles buffer in between), the call leaves the index-order tables.
C10_OwnKeysInterleaving == (Returned /\ intact) => AsInIndexOrder

\* A returned call whose sorts all read their own keys, in which a row of two
\* or more links was moved and the rows were not sorted in index order.
C10_Witness ==
    /\ Returned
    /\ intact
    /\ angles_of # n_nodes - 1
    /\ \E n \in Nodes : RowMoved(n) /\ n_links_at_node[n] >= 2

\* The row of scenario B and what compaction makes of it.
ScenarioB_row == (0 :> -1) @@ (1 :> 5) @@ (2 :> -1) @@ (3 :> 2)
ScenarioB_compacted == (0 :> 5) @@ (1 :> 2) @@ (2 :> -1) @@ (3 :> -1)

\* C11: _compact_links on a row of any width leaves the pairs whose connector
\* is not -1 at the front of the row in their original order, leaves (-1, 0)
\* in every slot behind them, and returns the number of those pairs; the row
\* [-1, 5, -1, 2] becomes [5, 2, -1, -1].
C11_CompactLinks ==
    Compacted =>
      LET size == Cardinality(DOMAIN links0[0])
          before == PairsOfWidth(links0[0], dirs0[0], 0, size)
          count == n_links_at_node[0]
      IN  /\ count = Len(before)
          /\ DOMAIN links_at_node[0] = DOMAIN links0[0]
          /\ \A k \in DOMAIN links_at_node[0] :
               IF k < count
               THEN <<links_at_node[0][k], link_dirs_at_node[0][k]>> = before[k + 1]
               ELSE links_at_node[0][k] = -1 /\ link_dirs_at_node[0][k] = 0
          /\ links0[0] = ScenarioB_row => links_at_node[0] = ScenarioB_compacted

\* The row [-1, 5, -1, 2], with orientations that tell the slots apart, was
\* compacted to [5, 2, -1, -1].
C11_Witness ==
    /\ Compacted
    /\ links0[0] = ScenarioB_row
    /\ dirs0[0][1] # dirs0[0][3]
    /\ links_at_node[0] = ScenarioB_compacted
    /\ n_links_at_node[0] = 2

\* The links of row 0 as passed point at 90, 0, 270 and 180 degrees.
ScenarioA_input ==
    /\ DOMAIN links0[0] = 0 .. 3
    /\ \A k \in 0 .. 3 : links0[0][k] # -1
    /\ PolarAngle(0, FarEndpoint(0, links0[0][0])) = M_PI \div 2
    /\ PolarAngle(0, FarEndpoint(0, links0[0][1])) = 0
    /\ PolarAngle(0, FarEndpoint(0, links0[0][2])) = M_PI + (M_PI \div 2)
    /\ PolarAngle(0, FarEndpoint(0, links0[0][3])) = M_PI

ScenarioA_permutation == <<1, 0, 3, 2>>

\* C12: when the four links of node 0 point, in input slot order, at 90, 0,
\* 270 and 180 degrees, the call leaves in slot i of row 0 the connector and
\* the orientation of input slot [1, 0, 3, 2][i].
C12_ScenarioA ==
    (Returned /\ ScenarioA_input) =>
      \A i \in 0 .. 3 :
        /\ links_at_node[0][i] = links0[0][ScenarioA_permutation[i + 1]]
        /\ link_dirs_at_node[0][i] = dirs0[0][ScenarioA_permutation[i + 1]]

\* A returned call on the scenario's input that left row 0 in the order
\* 0, 90, 180, 270 degrees.
C12_Witness ==
    /\ Returned
    /\ ScenarioA_input
    /\ links_at_node[0] # links0[0]
    /\ PolarAngle(0, FarEndpoint(0, links_at_node[0][0])) = 0
    /\ PolarAngle(0, FarEndpoint(0, links_at_node[0][3])) = M_PI + (M_PI \div 2)

\* Every connector entry of the row is -1.
AllSentinel(links) == \A k \in DOMAIN links : links[k] = -1

\* C13 as stated: a row whose connector entries are all -1 is, after the
\* call, exactly as it was in both tables, whatever orientations it held.
C13_AllSentinelNoOp ==
    Returned =>
      \A n \in Nodes :
        AllSentinel(links0[n]) =>
          /\ links_at_node[n] = links0[n]
          /\ link_dirs_at_node[n] = dirs0[n]

\* C13 amended: a row whose connector entries are all -1 keeps them, its
\* count is 0, and every orientation of the row is 0 after the call; the row
\* is as it was when its orientations were all 0 before.
C13_AllSentinelPadded ==
    Returned =>
      \A n \in Nodes :
        AllSentinel(links0[n]) =>
          /\ links_at_node[n] = links0[n]
          /\ n_links_at_node[n] = 0
          /\ \A k \in Slots : link_dirs_at_node[n][k] = 0
          /\ (\A k \in Slots : dirs0[n][k] = 0) => link_dirs_at_node[n] = dirs0[n]

\* A returned call on a table with a row of -1 entries that carried an
\* orientation other than 0.
C13_Witness ==
    /\ Returned
    /\ \E n \in Nodes :
         /\ AllSentinel(links0[n])
         /\ \E k \in Slots : dirs0[n][k] # 0
         /\ link_dirs_at_node[n] # dirs0[n]

\* C14: after the call every row is left-compacted: the slots below the
\* row's count hold valid connectors, every slot from the count on holds
\* connector -1 with orientation 0; no -1 precedes a valid connector.
C14_LeftCompacted ==
    Returned =>
      \A n \in Nodes :
        /\ \E c \in 0 .. max_links_per_node :
             \A k \in Slots :
               IF k < c
               THEN links_at_node[n][k] # -1
               ELSE links_at_node[n][k] = -1 /\ link_dirs_at_node[n][k] = 0
        /\ \A k \in Slots : links_at_node[n][k] # -1 <=> k < n_links_at_node[n]
        /\ \A j \in Slots, k \in Slots :
             (j < k /\ links_at_node[n][j] = -1) => links_at_node[n][k] = -1

\* A returned call whose last row had a gap in front of two links, was
\* reordered by the sort, and whose padding slot is left with a key below
\* the keys of the two links.
C14_Witness ==
    /\ Returned
    /\ n_links_at_node[node] = 2
    /\ links0[node][0] = -1
    /\ links0[node][1] # links0[node][2]
    /\ links_at_node[node][0] = links0[node][2]
    /\ links_at_node[node][2] = -1
    /\ angles[2] < angles[0]

\* The call in progress, or the last call made, met a failed malloc.
AllocationFailed == angles_mem = "null" \/ n_links_mem = "null"

\* C15: a call in which either malloc failed goes nowhere but to the raise of
\* MemoryError, and both tables are as they were when the call began.
C15_AllocationFailure ==
    AllocationFailed =>
      /\ pc \in {"alloc_failed", "raised"}
      /\ links_at_node = links0
      /\ link_dirs_at_node = dirs0

\* MemoryError was raised after one of the two mallocs failed, on a table
\* with a row that compaction would have rewritten.
C15_Witness ==
    /\ pc = "raised"
    /\ angles_mem # n_links_mem
    /\ AllocationFailed
    /\ \E n \in Nodes : links_at_node[n][0] = -1 /\ links_at_node[n][1] # -1

\* The keys of row `node` are written and the row is about to be sorted.
KeysWritten == pc = "sort"

\* C16: the key written for a valid slot of row n is the angle from n toward
\* the head of the slot's link when n is the link's tail, toward the tail when
\* n is the link's head, and it lies in [0, 2 pi).
C16_AngleKey ==
    KeysWritten =>
      \A k \in Slots :
        k < n_links_at_node[node] =>
          LET link == links_at_node[node][k]
              tail == nodes_at_link[link][1]
              head == nodes_at_link[link][2]
          IN  /\ tail = node => angles[k] = PolarAngle(node, head)
              /\ (head = node /\ tail # node) => angles[k] = PolarAngle(node, tail)
              /\ 0 <= angles[k]
              /\ angles[k] < 2 * M_PI

\* The keys of a row are written that holds a link leaving the node, a link
\* arriving at it, and a link whose atan2 is negative.
C16_Witness ==
    /\ KeysWritten
    /\ \E k \in Slots :
         k < n_links_at_node[node] /\ nodes_at_link[links_at_node[node][k]][1] = node
    /\ \E k \in Slots :
         /\ k < n_links_at_node[node]
         /\ nodes_at_link[links_at_node[node][k]][2] = node
         /\ angles[k] > 0
    /\ \E k \in Slots : k < n_links_at_node[node] /\ angles[k] > M_PI

\* The shape of a table: its rows and the slots of each row.
Shape(table) == [n \in DOMAIN table |-> DOMAIN table[n]]

BuffersInUse == pc \in {"compact", "angles", "sort", "finally"}

\* The call has ended, by returning or by raising.
Exited == pc \in {"done", "raised"}

\* C18: no scratch buffer is freed twice; while the loops run and until the
\* finally clause both buffers are allocated and not freed; when the call has
\* ended, by return or by MemoryError, no allocated buffer is left unfreed.
C18_ScratchReleased ==
    /\ angles_mem # "double_freed"
    /\ n_links_mem # "double_freed"
    /\ BuffersInUse => (angles_mem = "live" /\ n_links_mem = "live")
    /\ Exited => (angles_mem \in {"null", "freed"} /\ n_links_mem \in {"null", "freed"})
    /\ Returned => (angles_mem = "freed" /\ n_links_mem = "freed")

\* After a call that returned, a call raised MemoryError because the count
\* array could not be allocated; the angle array it had allocated is freed.
C18_Witness ==
    /\ pc = "raised"
    /\ entered_from = "done"
    /\ angles_mem = "freed"
    /\ n_links_mem = "null"

\* An angles buffer that holds no key of any row.
NoKeys == [k \in Slots |-> 0]

\* C19: the row a call leaves for node n is what the per-row steps make of
\* row n of the caller's tables taken alone, with an angles buffer that no
\* other row has written to: it is a function of that row, nodes_at_link and
\* the coordinates, and depends on no other row.
C19_RowsIndependent ==
    Returned =>
      \A n \in Nodes :
        LET t == RowAlone(n, links0[n], dirs0[n], NoKeys)
        IN  /\ links_at_node[n] = t.links
            /\ link_dirs_at_node[n] = t.link_dirs

\* A returned call in which a row of two links behind a gap was reordered by
\* the sort, after a row with more links had left its keys in the buffer.
C19_Witness ==
    /\ Returned
    /\ \E n \in Nodes :
         /\ n > 0
         /\ n_links_at_node[n] = 2
         /\ n_links_at_node[n - 1] > 2
         /\ links0[n][0] = -1
         /\ links0[n][1] # links0[n][2]
         /\ links_at_node[n][0] = links0[n][2]

\* The ids other than -1 of a row of any width, in slot order.
ValidIds(links, link_dirs) ==
    LET pairs == PairsOfWidth(links, link_dirs, 0, Cardinality(DOMAIN links))
    IN  [i \in DOMAIN pairs |-> pairs[i][1]]

Degenerate(n, link) ==
    LET far == IF nodes_at_link[link][1] = n
               THEN nodes_at_link[link][2]
               ELSE nodes_at_link[link][1]
    IN  x_of_node[far] = x_of_node[n] /\ y_of_node[far] = y_of_node[n]

\* C21: a connector whose far endpoint has the coordinates of the node is
\* given the key 0, which is atan2(0, 0); no error is raised for it (the call
\* raises only when a malloc failed); the returned row holds the valid pairs
\* it held, in non-decreasing order of their keys, and is a function of the
\* row passed in.
C21_DegenerateGeometry ==
    /\ KeysWritten =>
         \A k \in Slots :
           (k < n_links_at_node[node] /\ Degenerate(node, links_at_node[node][k]))
             => angles[k] = 0
    /\ pc \in {"alloc_failed", "raised"} => AllocationFailed
    /\ Returned =>
         \A n \in Nodes :
           /\ \A k \in Slots :
                (k + 1 \in Slots /\ links_at_node[n][k] # -1 /\ links_at_node[n][k + 1] # -1)
                  => AngleOfLink(n, links_at_node[n][k]) <= AngleOfLink(n, links_at_node[n][k + 1])
           /\ \A p \in PairsOf(links0[n], dirs0[n]) :
                p[1] # -1 =>
                  Occurrences(links_at_node[n], link_dirs_at_node[n], p)
                    = Occurrences(links0[n], dirs0[n], p)
           /\ links_at_node[n] = RowAlone(n, links0[n], dirs0[n], NoKeys).links
           /\ link_dirs_at_node[n] = RowAlone(n, links0[n], dirs0[n], NoKeys).link_dirs

\* A returned call on a row that listed the link from the north in front of
\* the link from the node to itself and the link to the coincident node; the
\* two degenerate links now precede it, in their input order.
C21_Witness ==
    /\ Returned
    /\ \E n \in Nodes :
         /\ \A k \in 0 .. 2 : links0[n][k] # -1
         /\ nodes_at_link[links0[n][1]] = <<n, n>>
         /\ Degenerate(n, links0[n][2])
         /\ links0[n][2] # links0[n][1]
         /\ links0[n][0] # -1
         /\ ~Degenerate(n, links0[n][0])
         /\ links_at_node[n] = [k \in Slots |-> links0[n][(k + 1) % 3]]

\* C22: no error is raised for a connector that does not list the element;
\* the resolver writes the connector's first element as the neighbor, and the
\* sort measures the connector's key toward its tail.
C22_InconsistentTopology ==
    /\ KeysWritten =>
         \A k \in Slots :
           k < n_links_at_node[node] =>
             LET link == links_at_node[node][k]
             IN  ~ListsNode(node, link)
                   => angles[k] = PolarAngle(node, nodes_at_link[link][1])
    /\ NbrReturned =>
         \A i \in DOMAIN where :
           \A k \in Slots :
             LET x == where[i]
                 y == connectors_at_element[x][k]
             IN  (y >= 0 /\ ~ListsNode(x, y)) => out[x][k] = elements_at_connector[y][1]
    /\ pc \in {"alloc_failed", "raised"} => AllocationFailed

\* The resolver returned on normalized tables whose last row holds a link
\* that does not list the node: the row was sorted with that link's key
\* toward its tail, and its neighbor is the link's first element.
C22_Witness ==
    /\ NbrReturned
    /\ Returned
    /\ \E k \in Slots :
         LET y == links_at_node[node][k]
         IN  /\ k < n_links_at_node[node]
             /\ n_links_at_node[node] >= 2
             /\ ~ListsNode(node, y)
             /\ angles[k] = PolarAngle(node, nodes_at_link[y][1])
             /\ out[node][k] = nodes_at_link[y][1]
             /\ out[node][k] # out0[node][k]

\* The number of slots of a row that hold something other than v.
CountNot(links, v) == Cardinality({ k \in DOMAIN links : links[k] # v })

\* C23: the resolver takes every negative connector id as absent: the slot
\* gets -1 and elements_at_connector is indexed with no negative id; the
\* compaction of the sort takes only -1 as absent, and counts and keeps any
\* other negative id.
C23_NegativeIds ==
    /\ \A y \in indexed : y >= 0
    /\ NbrReturned =>
         \A i \in DOMAIN where :
           \A k \in Slots :
             links0[where[i]][k] < 0 => out[where[i]][k] = -1
    /\ Compacted =>
         \A n \in Nodes :
           /\ n_links_at_node[n] = CountNot(links0[n], -1)
           /\ \A k \in Slots :
                (k < n_links_at_node[n]) = (links_at_node[n][k] # -1)
           /\ \A v \in {-2} :
                CountNot(links_at_node[n], v) = CountNot(links0[n], v)

\* The resolver answered -1 for a slot holding -2 whose out entry was 0, and
\* the compaction then counted that -2 and kept it among the valid slots.
C23_Witness ==
    /\ NbrReturned
    /\ Compacted
    /\ indexed # {}
    /\ \E i \in DOMAIN where :
         \E k \in Slots :
           LET x == where[i]
           IN  /\ links0[x][k] = -2
               /\ out0[x][k] = 0
               /\ out[x][k] = -1
               /\ \E j \in Slots : j < n_links_at_node[x] /\ links_at_node[x][j] = -2
               /\ n_links_at_node[x] = CountNot(links0[x], -1)
               /\ \E j \in Slots : links0[x][j] = -1

\* The elements listed in `where`.
Listed == { where[i] : i \in DOMAIN where }

\* C24: during and after the call, every row of out whose element is not
\* listed in `where` holds what it held before the call, so an empty `where`
\* leaves out as it was; on return every slot of every listed row is written.
C24_OnlyListedRows ==
    pc_nbr # "idle" =>
      /\ DOMAIN out = DOMAIN out0
      /\ \A x \in DOMAIN out : x \notin Listed => out[x] = out0[x]
      /\ where = << >> => out = out0
      /\ NbrReturned =>
           \A x \in Listed : \A k \in Slots : out[x][k] = Resolved(x, k)

\* A returned call that lists two different elements and changed both of
\* their rows, on a table with a third element whose row holds the caller's
\* fill.
C24_Witness ==
    /\ NbrReturned
    /\ DOMAIN where = {0, 1}
    /\ where[0] > where[1]
    /\ out[where[0]] # out0[where[0]]
    /\ out[where[1]] # out0[where[1]]
    /\ \E x \in DOMAIN out :
         x \notin Listed /\ out[x] = out0[x] /\ \A k \in Slots : Resolved(x, k) # out[x][k]

\* The number of slots of a row that hold v.
CountOf(vals, v) == Cardinality({ k \in DOMAIN vals : vals[k] = v })

\* Every connector has two different elements and appears once in the row of
\* each of them and in no other row.
ConsistentTopology ==
    \A y \in DOMAIN elements_at_connector :
      LET a == elements_at_connector[y][1]
          b == elements_at_connector[y][2]
      IN  /\ a # b
          /\ \A x \in DOMAIN connectors_at_element :
               CountOf(connectors_at_element[x], y) = (IF x \in {a, b} THEN 1 ELSE 0)

\* C25: on a consistent topology resolved for every element, z is in the
\* neighbor row of x as many times as x is in the neighbor row of z, and a
\* neighbor z of x has x among its own neighbors.
C25_NeighborSymmetry ==
    (NbrReturned /\ ConsistentTopology /\ Listed = DOMAIN out) =>
      \A x \in DOMAIN out :
        /\ \A z \in DOMAIN out : CountOf(out[x], z) = CountOf(out[z], x)
        /\ \A k \in Slots :
             out[x][k] # -1 => \E kk \in Slots : out[out[x][k]][kk] = x

\* A consistent topology resolved for every element: some element has two
\* neighbors, each of which has it as a neighbor, and some slot is empty.
C25_Witness ==
    /\ NbrReturned
    /\ ConsistentTopology
    /\ Listed = DOMAIN out
    /\ \E x \in DOMAIN out :
         \E z1 \in DOMAIN out, z2 \in DOMAIN out :
           /\ z1 # z2
           /\ CountOf(out[x], z1) = 1 /\ CountOf(out[z1], x) = 1
           /\ CountOf(out[x], z2) = 1 /\ CountOf(out[z2], x) = 1
    /\ \E x \in DOMAIN out : CountOf(out[x], -1) > 0 /\ out0[x] # out[x]

\* The neighbor lines 33-46 give for a slot holding connector y of element x.
NeighborVia(x, y) ==
    IF y < 0
    THEN -1
    ELSE IF elements_at_connector[y][1] = x
         THEN elements_at_connector[y][2]
         ELSE elements_at_connector[y][1]

\* C26: the resolver run for every node on the tables a returned
\* normalization left gives rows whose neighbors are in non-decreasing polar
\* angle around the node with every -1 behind them, and each row is the
\* neighbor row of the tables before the normalization, rearranged by the
\* permutation that rearranged the node's links.
C26_NormalizeThenResolve ==
    (NbrReturned /\ Returned /\ Listed = DOMAIN out) =>
      \A x \in DOMAIN out :
        /\ \A k \in Slots : (k < n_links_at_node[x]) = (out[x][k] # -1)
        /\ \A k \in Slots :
             (k + 1 < n_links_at_node[x])
               => PolarAngle(x, out[x][k]) <= PolarAngle(x, out[x][k + 1])
        /\ \E perm \in Permutations(Slots) :
             \A k \in Slots :
               /\ links_at_node[x][k] = links0[x][perm[k]]
               /\ out[x][k] = NeighborVia(x, links0[x][perm[k]])

\* The resolver returned on normalized tables: the links of some node were
\* rearranged by the normalization, its neighbor row differs from the
\* neighbor row of the tables before, and holds three neighbors at two or
\* more different angles.
C26_Witness ==
    /\ NbrReturned
    /\ Returned
    /\ Listed = DOMAIN out
    /\ \E x \in DOMAIN out :
         /\ links_at_node[x] # links0[x]
         /\ \E k \in Slots : out[x][k] # NeighborVia(x, links0[x][k])
         /\ n_links_at_node[x] = 3
         /\ PolarAngle(x, out[x][0]) < PolarAngle(x, out[x][2])
         /\ out[x] # out0[x]

\* tile_grid_into_strips has returned.
TileReturned == strips # << >>

\* The strips that hold row j.
StripsOf(j) == { s \in DOMAIN strips : strips[s][1] <= j /\ j < strips[s][2] }

\* C27: for 1 <= n_strips <= number of rows the strips are non-empty, each
\* begins where the one before it ends, the first at row 0 and the last ending
\* at the number of rows, so that every row is in one strip and no stop
\* exceeds the number of rows.
C27_StripsPartition ==
    (TileReturned /\ 1 <= n_strips /\ n_strips <= nrows) =>
      /\ \A s \in DOMAIN strips : strips[s][1] < strips[s][2] /\ strips[s][2] <= nrows
      /\ strips[1][1] = 0
      /\ \A s \in DOMAIN strips : s + 1 \in DOMAIN strips => strips[s + 1][1] = strips[s][2]
      /\ strips[Len(strips)][2] = nrows
      /\ \A j \in DOMAIN w : Cardinality(StripsOf(j)) = 1

\* Five rows tiled for two strips: rows_per_strip is 2 and the last strip is
\* the single row 4, its stop set to 5.
C27_Witness ==
    /\ TileReturned
    /\ nrows = 5
    /\ n_strips = 2
    /\ strips[Len(strips)] = << 4, 5 >>
    /\ strips[1] = << 0, 2 >>

\* C28: tile_grid_into_strips yields n_strips strips whenever the grid has
\* n_strips rows or more.
C28_OneStripPerWorker ==
    (TileReturned /\ 1 <= n_strips /\ n_strips <= nrows) => Len(strips) = n_strips

\* Three rows tiled for two strips: rows_per_strip is 1 and there are three
\* strips of one row.
C28_Divergence ==
    /\ TileReturned
    /\ nrows = 3
    /\ n_strips = 2
    /\ strips = << << 0, 1 >>, << 1, 2 >>, << 2, 3 >> >>

C30_Accumulates ==
    [][ pc_sub = "serial" =>
          w'[row] = LoopsFrom(w[row], load[row_load],
                              r[IF row < row_load THEN row_load - row ELSE row - row_load],
                              0) ]_vars

\* subside_grid has called subside_parallel_row for every pair of rows, one
\* of them with a load above the threshold, and w is as it was.
C30_Divergence ==
    /\ pc_sub = "done"
    /\ n_procs = 1
    /\ \A c \in DOMAIN kernel_calls : kernel_calls[c] = 1
    /\ \E j \in DOMAIN load : \E col \in DOMAIN load[j] : load[j][col] > Threshold
    /\ \A j \in DOMAIN r : \A col \in DOMAIN r[j] : r[j][col] # 0
    /\ w = w0

====
